---- MODULE Spec2Model ----
(***************************************************************************)
(* A model of the reusable lexer of src/src/lib.rs (src/src/main.rs holds  *)
(* the same scanner a second time).  A source is a sequence of characters; *)
(* every character has the UTF-8 width, and the is_alphanumeric /          *)
(* is_numeric / is_whitespace class, that Rust gives it.  The byte offset  *)
(* `pos` is a number of bytes, and slice() works on the bytes.             *)
(***************************************************************************)
EXTENDS Integers, Sequences, FiniteSets, TLC

VARIABLES source, prev, chars, pos, row, col, tokens, ret, before, status

vars == <<source, prev, chars, pos, row, col, tokens, ret, before, status>>

(***************************************************************************)
(* Characters.                                                             *)
(***************************************************************************)
\* '\0', the end sentinel (const EOF of main.rs)
NUL == "NUL"
\* '\n'
LF == "LF"
\* U+00A0 NO-BREAK SPACE: whitespace, two bytes
NBSP == "NBSP"
\* U+00E9 (e acute): alphabetic, two bytes
EAcute == "e'"
\* U+00B2 SUPERSCRIPT TWO: numeric (category No), two bytes
Sup2 == "^2"

AsciiLower ==
    {"a", "b", "c", "d", "e", "f", "g", "h", "i", "j", "k", "l", "m",
     "n", "o", "p", "q", "r", "s", "t", "u", "v", "w", "x", "y", "z"}

AsciiUpper ==
    {"A", "B", "C", "D", "E", "F", "G", "H", "I", "J", "K", "L", "M",
     "N", "O", "P", "Q", "R", "S", "T", "U", "V", "W", "X", "Y", "Z"}

AsciiDigits == {"0", "1", "2", "3", "4", "5", "6", "7", "8", "9"}

DigitVal(c) ==
    CASE c = "0" -> 0 [] c = "1" -> 1 [] c = "2" -> 2 [] c = "3" -> 3
      [] c = "4" -> 4 [] c = "5" -> 5 [] c = "6" -> 6 [] c = "7" -> 7
      [] c = "8" -> 8 [] c = "9" -> 9

\* char::len_utf8
LenUtf8(c) == IF c \in {NBSP, EAcute, Sup2} THEN 2 ELSE 1

\* char::is_alphanumeric ('_' is not alphanumeric)
IsAlphanumeric(c) == c \in AsciiLower \cup AsciiUpper \cup AsciiDigits \cup {EAcute, Sup2}

\* char::is_numeric
IsNumeric(c) == c \in AsciiDigits \cup {Sup2}

\* char::is_whitespace
IsWhitespace(c) == c \in {" ", LF, NBSP}

\* the pattern 'a'..='z' | 'A'..='Z' | '_'
IsIdentStart(c) == c \in AsciiLower \cup AsciiUpper \cup {"_"}

\* the pattern '0'..='9'
IsDigitStart(c) == c \in AsciiDigits

(***************************************************************************)
(* The source as bytes: byte k of character c is <<c, k>>.                 *)
(***************************************************************************)
RECURSIVE Bytes(_)
Bytes(s) ==
    IF s = <<>> THEN <<>>
    ELSE (IF LenUtf8(Head(s)) = 2 THEN <<<<Head(s), 1>>, <<Head(s), 2>>>>
          ELSE <<<<Head(s), 1>>>>) \o Bytes(Tail(s))

\* str::is_char_boundary: 0, the length, or the first byte of a character
IsCharBoundary(bs, i) ==
    \/ i = 0
    \/ i = Len(bs)
    \/ (i < Len(bs) /\ bs[i + 1][2] = 1)

\* the characters of a run of whole characters given as bytes
RECURSIVE Decode(_)
Decode(bs) ==
    IF bs = <<>> THEN <<>>
    ELSE IF Head(bs)[2] = 1 THEN <<Head(bs)[1]>> \o Decode(Tail(bs))
    ELSE Decode(Tail(bs))

(***************************************************************************)
(* The lexer: a record [prev, chars, pos, row, col]; `chars` is what the   *)
(* Chars iterator has still to yield.                                      *)
(***************************************************************************)
new(src) ==
    [prev  |-> IF src = <<>> THEN NUL ELSE Head(src),
     chars |-> IF src = <<>> THEN <<>> ELSE Tail(src),
     pos   |-> 0,
     row   |-> 1,
     col   |-> 1]

is_over(l) == l.prev = NUL

\* &self.source[a..b]: aborts unless a <= b <= len and both are boundaries
slice(src, a, b) ==
    LET bs == Bytes(src) IN
    IF a <= b /\ b <= Len(bs) /\ IsCharBoundary(bs, a) /\ IsCharBoundary(bs, b)
    THEN [ok |-> TRUE, text |-> Decode(SubSeq(bs, a + 1, b))]
    ELSE [ok |-> FALSE, text |-> <<>>]

\* next_char() without `self.row += 1`
next_char_NoRow(l) ==
    IF l.chars # <<>>
    THEN LET ch == Head(l.chars) IN
         [prev  |-> ch,
          chars |-> Tail(l.chars),
          pos   |-> l.pos + LenUtf8(ch),
          row   |-> l.row,
          col   |-> IF ch = LF THEN 0 ELSE l.col + 1]
    ELSE [l EXCEPT !.prev = NUL]

\* next_char() that restarts the column when the input has ended
next_char_EndResetsCol(l) ==
    IF l.chars # <<>>
    THEN LET ch == Head(l.chars) IN
         [prev  |-> ch,
          chars |-> Tail(l.chars),
          pos   |-> l.pos + LenUtf8(ch),
          row   |-> IF ch = LF THEN l.row + 1 ELSE l.row,
          col   |-> IF ch = LF THEN 0 ELSE l.col + 1]
    ELSE [l EXCEPT !.prev = NUL, !.col = 0]

next_char(l) ==
    IF l.chars # <<>>
    THEN LET ch == Head(l.chars) IN
         [prev  |-> ch,
          chars |-> Tail(l.chars),
          pos   |-> l.pos + LenUtf8(ch),
          row   |-> IF ch = LF THEN l.row + 1 ELSE l.row,
          col   |-> IF ch = LF THEN 0 ELSE l.col + 1]
    ELSE [l EXCEPT !.prev = NUL]

\* what next_char returns
next_char_ret(l) == IF l.chars # <<>> THEN Head(l.chars) ELSE "None"

\* a peek() that returns the lookahead itself
peek_Lookahead(l) == l.prev

peek(l) == IF l.chars # <<>> THEN Head(l.chars) ELSE "None"

RECURSIVE IdentLoop(_)
IdentLoop(l) ==
    IF IsAlphanumeric(l.prev) \/ l.prev = "_" THEN IdentLoop(next_char(l)) ELSE l

trim_ident(src, l) ==
    LET start_pos == l.pos
        l1 == IdentLoop(l)
        s == slice(src, start_pos, l1.pos)
    IN [l |-> l1, ok |-> s.ok, text |-> s.text]

RECURSIVE NumberLoop(_)
NumberLoop(l) ==
    IF IsNumeric(l.prev) THEN NumberLoop(next_char(l)) ELSE l

trim_number(src, l) ==
    LET start_pos == l.pos
        l1 == NumberLoop(l)
        s == slice(src, start_pos, l1.pos)
    IN [l |-> l1, ok |-> s.ok, text |-> s.text]

\* while self.prev != '\n' { self.next_char(); }  The loop never ends when
\* next_char() no longer changes the lexer and prev is not '\n'.
RECURSIVE trim_comment(_)
trim_comment(l) ==
    IF l.prev = LF THEN [l |-> l, hang |-> FALSE]
    ELSE IF next_char(l) = l THEN [l |-> l, hang |-> TRUE]
    ELSE trim_comment(next_char(l))

RECURSIVE trim_whitespace(_)
trim_whitespace(l) ==
    IF IsWhitespace(l.prev) THEN trim_whitespace(next_char(l)) ELSE l

(***************************************************************************)
(* str::parse::<i32>() and unwrap_or(0).                                   *)
(***************************************************************************)
\* i32::MAX
I32Max == 2147483647

\* the digits of a non-negative literal, with checked_mul / checked_add
RECURSIVE ParsePos(_, _)
ParsePos(ds, acc) ==
    IF ds = <<>> THEN [ok |-> TRUE, value |-> acc]
    ELSE LET d == DigitVal(Head(ds)) IN
         IF acc > (I32Max - d) \div 10 THEN [ok |-> FALSE, value |-> 0]
         ELSE ParsePos(Tail(ds), acc * 10 + d)

\* the digits of a negative literal, with checked_mul / checked_sub
RECURSIVE ParseNeg(_, _)
ParseNeg(ds, acc) ==
    IF ds = <<>> THEN [ok |-> TRUE, value |-> acc]
    ELSE LET d == DigitVal(Head(ds))
             m == 0 - acc
             lim == IF d = 0 THEN I32Max \div 10 ELSE (I32Max - (d - 1)) \div 10
         IN IF m > lim THEN [ok |-> FALSE, value |-> 0]
            ELSE ParseNeg(Tail(ds), acc * 10 - d)

\* i32::from_str: an optional sign, then one or more ASCII digits, in range
ParseI32(text) ==
    IF text = <<>> THEN [ok |-> FALSE, value |-> 0]
    ELSE LET signed == Head(text) \in {"+", "-"}
             ds == IF signed THEN Tail(text) ELSE text
         IN IF ds = <<>> \/ (\E i \in 1..Len(ds) : ds[i] \notin AsciiDigits)
            THEN [ok |-> FALSE, value |-> 0]
            ELSE IF Head(text) = "-" THEN ParseNeg(ds, 0) ELSE ParsePos(ds, 0)

\* .parse().unwrap_or(0)
ParseOrZero(text) == LET r == ParseI32(text) IN IF r.ok THEN r.value ELSE 0

(***************************************************************************)
(* Iterator::next.  A token carries, besides kind, payload and position,   *)
(* the index in the source of its first character (`start`, 1-based) and   *)
(* the number of characters the iterator had yielded when the token was    *)
(* returned (`stop`): the index of the lookahead left behind, unless the   *)
(* input ended.                                                            *)
(***************************************************************************)
Tok(kind, text, value, op, position, start) ==
    [kind |-> kind, text |-> text, value |-> value, op |-> op,
     position |-> position, start |-> start, stop |-> start]

NoTok == Tok("NoTok", <<>>, 0, "", <<0, 0>>, 0)

\* the number of characters the Chars iterator has yielded
Yielded(src, l) == Len(src) - Len(l.chars)

Some(src, l, t) ==
    [outcome |-> "Some", l |-> l, tok |-> [t EXCEPT !.stop = Yielded(src, l)]]

\* the operator arms that consume one character
SingleOp(c) ==
    CASE c = "+" -> "Plus"
      [] c = "-" -> "Minus"
      [] c = "*" -> "Multiply"
      [] c = "%" -> "Modulo"
      [] c = "=" -> "Equal"

\* a '>' arm that forgets to consume the '>'
GreaterArm_NoAdvance(l) ==
    IF l.chars # <<>> /\ Head(l.chars) = "=" THEN [l |-> next_char(l), op |-> "GreaterOrEqual"]
    ELSE [l |-> l, op |-> "Greater"]

\* the '>' arm
GreaterArm(l) ==
    LET l1 == next_char(l) IN
    IF l1.prev = "=" THEN [l |-> next_char(l1), op |-> "GreaterOrEqual"]
    ELSE [l |-> l1, op |-> "Greater"]

\* the '<' arm
LessArm(l) ==
    LET l1 == next_char(l) IN
    IF l1.prev = "=" THEN [l |-> next_char(l1), op |-> "LessOrEqual"]
    ELSE IF l1.prev = ">" THEN [l |-> next_char(l1), op |-> "NotEqual"]
    ELSE [l |-> l1, op |-> "Less"]

\* a `_` arm that steps over the character before it returns None
DefaultArm_Consumes(l) ==
    [outcome |-> "None",
     l |-> IF l.chars # <<>>
           THEN [l EXCEPT !.prev = Head(l.chars), !.chars = Tail(l.chars),
                          !.pos = l.pos + 1, !.col = l.col + 1]
           ELSE [l EXCEPT !.prev = NUL],
     tok |-> NoTok]

\* the `_ => None` arm
DefaultArm(l) == [outcome |-> "None", l |-> l, tok |-> NoTok]

RECURSIVE next(_, _)
next(src, l0) ==
    LET l == trim_whitespace(l0)
        position == <<l.row, l.col>>
        start == Yielded(src, l)
        c == l.prev
    IN CASE IsIdentStart(c) ->
              LET r == trim_ident(src, l) IN
              IF r.ok THEN Some(src, r.l, Tok("Ident", r.text, 0, "", position, start))
              ELSE [outcome |-> "panic", l |-> r.l, tok |-> NoTok]
         [] IsDigitStart(c) ->
              LET r == trim_number(src, l) IN
              IF r.ok
              THEN Some(src, r.l, Tok("Num", <<>>, ParseOrZero(r.text), "", position, start))
              ELSE [outcome |-> "panic", l |-> r.l, tok |-> NoTok]
         [] c \in {"+", "-", "*", "%", "="} ->
              Some(src, next_char(l), Tok("Opr", <<>>, 0, SingleOp(c), position, start))
         [] c = "/" ->
              LET l1 == next_char(l) IN
              IF l1.prev = "/"
              THEN LET r == trim_comment(l1) IN
                   IF r.hang THEN [outcome |-> "hang", l |-> r.l, tok |-> NoTok]
                   ELSE next(src, r.l)
              ELSE Some(src, l1, Tok("Opr", <<>>, 0, "Divide", position, start))
         [] c = ">" ->
              LET r == GreaterArm(l) IN
              Some(src, r.l, Tok("Opr", <<>>, 0, r.op, position, start))
         [] c = "<" ->
              LET r == LessArm(l) IN
              Some(src, r.l, Tok("Opr", <<>>, 0, r.op, position, start))
         [] c = "(" ->
              Some(src, next_char(l), Tok("OpeningBracket", <<>>, 0, "", position, start))
         [] c = ")" ->
              Some(src, next_char(l), Tok("ClosingBracket", <<>>, 0, "", position, start))
         [] OTHER -> DefaultArm(l)

(***************************************************************************)
(* The sources the lexer is run on.                                        *)
(***************************************************************************)
MaxLen == 3
MaxCommentLen == 7
MaxTailLen == 1

RECURSIVE SeqsUpTo(_, _)
SeqsUpTo(S, n) ==
    IF n = 0 THEN {<<>>}
    ELSE LET shorter == SeqsUpTo(S, n - 1) IN
         shorter \cup {Append(s, c) : s \in {t \in shorter : Len(t) = n - 1}, c \in S}

Alphabet == {"a", "1", "=", "/", "<", ">", " ", LF, "#", EAcute, Sup2, NBSP, NUL}

ShortSources == SeqsUpTo(Alphabet, MaxLen)

\* comments, line-feeds and tokens
CommentSources == SeqsUpTo({"/", LF, "1"}, MaxCommentLen)

\* ten-digit runs around the 32-bit limit, alone or followed by something
DigitRuns ==
    {<<"2", "1", "4", "7", "4", "8", "3", "6", "4", "7">>,
     <<"2", "1", "4", "7", "4", "8", "3", "6", "4", "8">>,
     <<"9", "9", "9", "9", "9", "9", "9", "9", "9", "9">>,
     <<"0", "0", "0", "0", "0", "0", "0", "0", "1", "2">>}

DigitSources ==
    {r \o t : r \in DigitRuns, t \in SeqsUpTo({"+", " ", "9", "a", "#"}, MaxTailLen)}

\* the examples of the documentation
ExampleSources ==
    {<<"f", "o", "o", "1", "2", "3", " ", "b", "a", "r">>,
     <<"1", "2", "+", "3", "4">>,
     <<"a", ">", "=", "b", "<", ">", "c", "<", "d">>,
     <<"/", "/", " ", "c", "o", "m", "m", "e", "n", "t", LF, "4", "2">>}

\* sources whose first character is whitespace two bytes wide
WideFirstSources ==
    {<<NBSP>> \o t : t \in SeqsUpTo({" ", "a", "1", "=", "#"}, MaxLen)}

Sources ==
    ShortSources \cup CommentSources \cup DigitSources \cup WideFirstSources
        \cup ExampleSources

\* the sources of the runs that call the whole public interface
MaxApiLen == 3

ApiAlphabet == {"a", "1", "/", LF, " ", "#", EAcute, Sup2, NUL}

ApiSources == SeqsUpTo(ApiAlphabet, MaxApiLen) \cup ExampleSources

(***************************************************************************)
(* The state machine: a lexer made by new(), and its caller's calls.       *)
(***************************************************************************)
Cur == [prev |-> prev, chars |-> chars, pos |-> pos, row |-> row, col |-> col]

Become(l) ==
    /\ prev' = l.prev
    /\ chars' = l.chars
    /\ pos' = l.pos
    /\ row' = l.row
    /\ col' = l.col

\* Lexer::new(source)
Created(srcs) ==
    /\ source \in srcs
    /\ prev = new(source).prev
    /\ chars = new(source).chars
    /\ pos = new(source).pos
    /\ row = new(source).row
    /\ col = new(source).col
    /\ tokens = <<>>
    /\ ret = [op |-> "new", val |-> "Lexer"]
    /\ before = [op |-> "none", val |-> "none"]
    /\ status = "ok"

\* lexer.next(): a token, exhaustion, an abort in slice(), or no return.
\* `ret` is what the last call returned and `before` what the call before it did.
CallNext ==
    /\ status = "ok"
    /\ LET r == next(source, Cur) IN
       /\ Become(r.l)
       /\ tokens' = IF r.outcome = "Some" THEN Append(tokens, r.tok) ELSE tokens
       /\ ret' = [op |-> "next", val |-> r.outcome]
       /\ before' = ret
       /\ status' = IF r.outcome \in {"panic", "hang"} THEN r.outcome ELSE "ok"
    /\ UNCHANGED source

\* lexer.next_char()
CallNextChar ==
    /\ status = "ok"
    /\ Become(next_char(Cur))
    /\ ret' = [op |-> "next_char", val |-> next_char_ret(Cur)]
    /\ before' = ret
    /\ UNCHANGED <<source, tokens, status>>

\* lexer.peek()
CallPeek ==
    /\ status = "ok"
    /\ ret' = [op |-> "peek", val |-> peek(Cur)]
    /\ before' = ret
    /\ UNCHANGED <<source, prev, chars, pos, row, col, tokens, status>>

\* lexer.is_over()
CallIsOver ==
    /\ status = "ok"
    /\ ret' = [op |-> "is_over", val |-> IF is_over(Cur) THEN "true" ELSE "false"]
    /\ before' = ret
    /\ UNCHANGED <<source, prev, chars, pos, row, col, tokens, status>>

\* A scan: the caller makes a lexer and pulls tokens from it, as main() does,
\* and may go on pulling after exhaustion.
Init == Created(Sources)

Next == CallNext

Spec == Init /\ [][Next]_vars

\* The whole public interface, called in any order.
ApiInit == Created(ApiSources)

ApiNext == CallNext \/ CallNextChar \/ CallPeek \/ CallIsOver

ApiSpec == ApiInit /\ [][ApiNext]_vars

(***************************************************************************)
(* What the claims speak of, stated on the source itself.                  *)
(***************************************************************************)
TokenIds == 1..Len(tokens)

\* the maximal run of alphanumeric-or-underscore characters from index i
RECURSIVE IdentRunAt(_, _)
IdentRunAt(src, i) ==
    IF i <= Len(src) /\ (IsAlphanumeric(src[i]) \/ src[i] = "_")
    THEN <<src[i]>> \o IdentRunAt(src, i + 1)
    ELSE <<>>

\* the maximal run of decimal digits '0'..'9' from index i
RECURSIVE DigitRunAt(_, _)
DigitRunAt(src, i) ==
    IF i <= Len(src) /\ src[i] \in AsciiDigits
    THEN <<src[i]>> \o DigitRunAt(src, i + 1)
    ELSE <<>>

RECURSIVE StripZeros(_)
StripZeros(ds) ==
    IF ds # <<>> /\ Head(ds) = "0" THEN StripZeros(Tail(ds)) ELSE ds

\* a <= b for digit strings of one length
RECURSIVE DigitsLeq(_, _)
DigitsLeq(a, b) ==
    IF a = <<>> THEN TRUE
    ELSE IF DigitVal(Head(a)) < DigitVal(Head(b)) THEN TRUE
    ELSE IF DigitVal(Head(a)) > DigitVal(Head(b)) THEN FALSE
    ELSE DigitsLeq(Tail(a), Tail(b))

I32MaxDigits == <<"2", "1", "4", "7", "4", "8", "3", "6", "4", "7">>

\* the run denotes a value of at most 2^31 - 1
RunFits(run) ==
    LET d == StripZeros(run) IN
    \/ Len(d) < Len(I32MaxDigits)
    \/ (Len(d) = Len(I32MaxDigits) /\ DigitsLeq(d, I32MaxDigits))

\* the value a digit run that fits denotes
RECURSIVE RunValueFrom(_, _)
RunValueFrom(ds, acc) ==
    IF ds = <<>> THEN acc ELSE RunValueFrom(Tail(ds), acc * 10 + DigitVal(Head(ds)))

RunValue(run) == RunValueFrom(run, 0)

SetMax(S) == CHOOSE x \in S : \A y \in S : y <= x

\* the 1-indexed (row, column) of the character at index i
TruePosition(src, i) ==
    LET lfs == {j \in 1..(i - 1) : src[j] = LF}
        last == IF lfs = {} THEN 0 ELSE SetMax(lfs)
    IN <<1 + Cardinality(lfs), i - last>>

LexLess(p, q) == p[1] < q[1] \/ (p[1] = q[1] /\ p[2] < q[2])

\* the character after index i, "None" at the end
Following(src, i) == IF i < Len(src) THEN src[i + 1] ELSE "None"

Smaller(a, b) == IF a < b THEN a ELSE b

\* a character on which next() returns a token, whatever follows it
\* ('/' is left out: it may open a comment)
StartsToken(c) ==
    \/ IsIdentStart(c)
    \/ IsDigitStart(c)
    \/ c \in {"+", "-", "*", "%", "=", "<", ">", "(", ")"}

\* The index of the first character after any whitespace and "//" comments,
\* each ended by a line-feed, that begin at index i, and the number of
\* comments passed; `at` is 0 when a comment is not ended by a line-feed.
RECURSIVE SkipFrom(_, _, _)
SkipFrom(src, i, n) ==
    IF i > Len(src) THEN [at |-> i, comments |-> n]
    ELSE IF IsWhitespace(src[i]) THEN SkipFrom(src, i + 1, n)
    ELSE IF src[i] = "/" /\ Following(src, i) = "/"
    THEN LET ends == {j \in (i + 2)..Len(src) : src[j] = LF} IN
         IF ends = {} THEN [at |-> 0, comments |-> n + 1]
         ELSE SkipFrom(src, (CHOOSE j \in ends : \A m \in ends : j <= m), n + 1)
    ELSE [at |-> i, comments |-> n]

(***************************************************************************)
(* The claims.                                                             *)
(***************************************************************************)

\* C1: the text of every Identifier token is the maximal run of
\* alphanumeric-or-underscore characters of the source that starts at the
\* token's first character, also when end-of-input ends the run, and it is
\* never empty.
C1_IdentIsMaximalRun ==
    \A k \in TokenIds :
        tokens[k].kind = "Ident" =>
            /\ tokens[k].text = IdentRunAt(source, tokens[k].start)
            /\ tokens[k].text # <<>>

\* C2: the value of every Number token is the value of the maximal run of
\* decimal digits that starts at the token's first character, when that
\* value fits in 32 bits, wherever the run sits in the source.
C2_NumberIsRunValue ==
    \A k \in TokenIds :
        tokens[k].kind = "Num" =>
            LET run == DigitRunAt(source, tokens[k].start) IN
            RunFits(run) => tokens[k].value = RunValue(run)

\* C3: a digit run whose value does not fit in 32 bits gives Number(0),
\* followed by further characters or not, and the scan goes on: a token that
\* starts right after the run is produced by the next pull.
C3_OverflowIsZero ==
    \A k \in TokenIds :
        tokens[k].kind = "Num" =>
            LET run == DigitRunAt(source, tokens[k].start)
                e == tokens[k].start + Len(run)
            IN ~RunFits(run) =>
                /\ tokens[k].value = 0
                /\ (/\ e <= Len(source)
                    /\ StartsToken(source[e])
                    /\ (Len(tokens) > k \/ ret.val # "Some"))
                   => (Len(tokens) > k /\ tokens[k + 1].start = e)

\* C4: every call of next() terminates (it returns a token or exhaustion,
\* or at worst aborts); a line comment ended by end-of-input is consumed and
\* the pull returns, it does not loop for ever.
C4_NextTerminates ==
    ret.op = "next" => ret.val \in {"Some", "None", "panic"}

\* C5: once next() has returned exhaustion, the next call of next() returns
\* exhaustion too (and so every later one), at end-of-input and at an
\* unrecognized character alike.
C5_ExhaustionIsTerminal ==
    (before.op = "next" /\ before.val = "None" /\ ret.op = "next")
        => ret.val = "None"

\* exhaustion was returned twice in a row at an unrecognized character that
\* is followed by a character that would start an identifier
C5_Witness ==
    /\ before.op = "next" /\ before.val = "None"
    /\ ret.op = "next" /\ ret.val = "None"
    /\ prev = "#"
    /\ chars # <<>> /\ IsIdentStart(Head(chars))

\* C6: the position of every token is the 1-indexed (row, column) of the
\* first character of its lexeme: one more than the line-feeds before it,
\* and one more than the characters between it and the line-feed before it.
C6_PositionIsRowColumn ==
    \A k \in TokenIds :
        tokens[k].position = TruePosition(source, tokens[k].start)

\* C7: the positions of the tokens of a scan increase strictly in
\* lexicographic order, so rows never decrease.
C7_PositionsIncrease ==
    \A i \in TokenIds : \A j \in TokenIds :
        i < j => LexLess(tokens[i].position, tokens[j].position)

\* two tokens on one row, and a third on a later row at a smaller column
C7_Witness ==
    \E i \in TokenIds : \E j \in TokenIds : \E k \in TokenIds :
        /\ i < j /\ j < k
        /\ tokens[i].position[1] = tokens[j].position[1]
        /\ tokens[j].position[1] < tokens[k].position[1]
        /\ tokens[k].position[2] < tokens[j].position[2]

\* the kind, text and operator of a token
Shape(t) == [kind |-> t.kind, text |-> t.text, op |-> t.op]

IdentShape(c) == [kind |-> "Ident", text |-> <<c>>, op |-> ""]

OprShape(o) == [kind |-> "Opr", text |-> <<>>, op |-> o]

\* '<' and '>' become the operator the following character selects, and two
\* characters are consumed exactly when the operator has two; in the
\* one-character cases the following character starts the next token.
C8_Disambiguation ==
    \A k \in TokenIds :
        LET t == tokens[k]
            c == source[t.start]
            n == Following(source, t.start)
            two == (c = "<" /\ n \in {"=", ">"}) \/ (c = ">" /\ n = "=")
        IN c \in {"<", ">"} =>
            /\ t.kind = "Opr"
            /\ t.op = (IF c = "<"
                       THEN (IF n = "=" THEN "LessOrEqual"
                             ELSE IF n = ">" THEN "NotEqual" ELSE "Less")
                       ELSE (IF n = "=" THEN "GreaterOrEqual" ELSE "Greater"))
            /\ t.stop = Smaller(t.start + (IF two THEN 2 ELSE 1), Len(source))
            /\ (~two /\ n # "None" /\ StartsToken(n) /\ k < Len(tokens))
                   => tokens[k + 1].start = t.start + 1

\* C8: two-character operator disambiguation as above, so that "a>=b<>c<d"
\* yields a, GreaterOrEqual, b, NotEqual, c, Less, d.
C8_OperatorsAndExample ==
    /\ C8_Disambiguation
    /\ (/\ source = <<"a", ">", "=", "b", "<", ">", "c", "<", "d">>
        /\ ret.op = "next" /\ ret.val = "None")
       => [k \in TokenIds |-> Shape(tokens[k])] =
              <<IdentShape("a"), OprShape("GreaterOrEqual"), IdentShape("b"),
                OprShape("NotEqual"), IdentShape("c"), OprShape("Less"),
                IdentShape("d")>>

\* C9: when the source begins with whitespace and "//" comments, each ended
\* by a line-feed, and a token follows them, the first call of next() returns
\* that token, stamped with its own row and column; a '/' that no '/'
\* follows yields Divide.
C9_CommentsAreSkipped ==
    /\ ret.op = "next" =>
           LET s == SkipFrom(source, 1, 0) IN
           (/\ s.comments > 0 /\ s.at > 0 /\ s.at <= Len(source)
            /\ (StartsToken(source[s.at]) \/ source[s.at] = "/"))
           => /\ Len(tokens) >= 1
              /\ tokens[1].start = s.at
              /\ tokens[1].position = TruePosition(source, s.at)
    /\ \A k \in TokenIds :
           (source[tokens[k].start] = "/") =>
               (tokens[k].kind = "Opr" /\ tokens[k].op = "Divide")

\* the token is the lexeme of the source at its first character
TokenUnchanged(t) ==
    /\ t.kind = "Ident" => t.text = IdentRunAt(source, t.start)
    /\ t.kind = "Num" =>
           LET run == DigitRunAt(source, t.start) IN
           t.value = (IF RunFits(run) THEN RunValue(run) ELSE 0)

\* next() has returned exhaustion with a character of the source, not the
\* end of input, as the lookahead
StoppedAtCharacter ==
    /\ ret.op = "next" /\ ret.val = "None"
    /\ Len(source) - Len(chars) >= 1
    /\ source[Len(source) - Len(chars)] = prev

\* C10: when next() stops at an unrecognized character it returns exhaustion
\* and raises no error, leaves the character unconsumed, emits no token that
\* follows it, and every token that precedes it has been emitted unchanged.
C10_SilentStop ==
    StoppedAtCharacter =>
        /\ status = "ok"
        /\ \A k \in TokenIds : tokens[k].start < Len(source) - Len(chars)
        /\ \A k \in TokenIds : TokenUnchanged(tokens[k])

\* the byte at which the character at index i starts (i may be Len + 1)
ByteStart(src, i) == Len(Bytes(SubSeq(src, 1, i - 1)))

\* C12: in every state reached by new() and any calls of next_char() and
\* next(), on sources that mix one-byte and two-byte characters too, pos is
\* at most the length of the buffer and lies on a character boundary, and
\* the slice of trim_ident / trim_number never aborts.
C12_PosOnBoundary ==
    /\ pos <= Len(Bytes(source))
    /\ IsCharBoundary(Bytes(source), pos)
    /\ status # "panic"

\* C13: next_char() adds the width of the character it consumes to pos, so
\* pos is the byte index at which the lookahead starts, and the length of
\* the buffer once the last character has been consumed (next_char() has
\* returned None).
C13_PosIsLookaheadStart ==
    /\ (chars # <<>> \/ prev # NUL) =>
           (Yielded(source, Cur) >= 1 => pos = ByteStart(source, Yielded(source, Cur)))
    /\ (ret.op = "next_char" /\ ret.val = "None") => pos = Len(Bytes(source))

\* C15: a Number token consumes exactly the maximal run of decimal digits
\* '0'..'9': when next() returns it, the lookahead is the first character
\* after the run, also when that character is a non-ASCII numeric one.
C15_NumberStopsAfterDigits ==
    \A k \in TokenIds :
        tokens[k].kind = "Num" =>
            tokens[k].stop =
                Smaller(tokens[k].start + Len(DigitRunAt(source, tokens[k].start)),
                        Len(source))

\* C18: is_over() returns true only when every character of the source has
\* been consumed, also when the source contains U+0000, and once it has
\* returned true it returns true after a further next_char() or next().
C18_IsOverMeansEnd ==
    /\ (ret.op = "is_over" /\ ret.val = "true") => chars = <<>>
    /\ (/\ before.op = "is_over" /\ before.val = "true"
        /\ ret.op \in {"next_char", "next"} /\ status = "ok")
       => is_over(Cur)

\* the input has ended: the iterator is empty and the lookahead is '\0'
C14_Ended == chars = <<>> /\ prev = NUL

\* C14: once next_char() has returned None the lookahead is the sentinel
\* and stays it: every later next_char() returns None, and every later call
\* leaves pos, row and col unchanged.
C14_EndIsPermanent ==
    /\ []((ret.op = "next_char" /\ ret.val = "None") => C14_Ended)
    /\ [][C14_Ended =>
            /\ C14_Ended'
            /\ pos' = pos /\ row' = row /\ col' = col
            /\ (ret'.op = "next_char" => ret'.val = "None")]_vars

\* next_char() has returned None twice in a row, after a pull had returned
\* a token
C14_Witness ==
    /\ before.op = "next_char" /\ before.val = "None"
    /\ ret.op = "next_char" /\ ret.val = "None"
    /\ tokens # <<>>
    /\ pos > 0

\* C16: peek() returns the character that follows the lookahead, None when
\* there is none, and changes no field of the lexer, so the tokens pulled
\* are the same with and without it.
C16_PeekIsPure ==
    /\ [](ret.op = "peek" => ret.val = Following(source, Yielded(source, Cur)))
    /\ [][ret'.op = "peek" => UNCHANGED <<prev, chars, pos, row, col, tokens>>]_vars

\* peek() after a pull that returned a token, with a character other than
\* the lookahead following it
C16_Witness ==
    /\ before.op = "next" /\ before.val = "Some"
    /\ ret.op = "peek" /\ ret.val # "None" /\ ret.val # prev
    /\ prev # NUL

\* C17: every pull that returns a token consumes a character no earlier pull
\* consumed: each token starts at a character of the source after the start
\* of the token before it and its pull moved the cursor past that character,
\* so a scan emits at most as many tokens as the source has characters and
\* at most that many pulls return a token before one returns none.
C17_EachTokenConsumes ==
    /\ \A k \in TokenIds :
           /\ tokens[k].start >= 1 /\ tokens[k].start <= Len(source)
           /\ tokens[k].stop >= Smaller(tokens[k].start + 1, Len(source))
    /\ \A i \in TokenIds : \A j \in TokenIds :
           i < j => (tokens[i].start < tokens[j].start /\ tokens[i].stop <= tokens[j].start)
    /\ (tokens # <<>> /\ tokens[Len(tokens)].start = Len(source) /\ ret.val = "Some")
           => C14_Ended
    /\ (ret.op = "next" /\ ret.val = "Some") => tokens # <<>>
    /\ Len(tokens) <= Len(source)

\* a scan that emitted as many tokens as the source has characters, and
\* then returned exhaustion
C17_Witness ==
    /\ Len(tokens) = Len(source) /\ Len(tokens) >= 3
    /\ ret.op = "next" /\ ret.val = "None"

====
